---- MODULE Spec2Model ----
(***************************************************************************)
(* Bifrost API gateway: the service registry (src/services/services.py),   *)
(* the store it is loaded from (src/crud/service.py, src/models/service.py)*)
(* the admin handlers that mutate the store and schedule background        *)
(* reloads and health checks (src/api/admin/services.py), the request      *)
(* forwarder (ServiceProxy) and the role check in front of the admin       *)
(* handlers (src/core/permissions.py).                                     *)
(*                                                                         *)
(* Scheduling: every handler and background task is an `async def` run on  *)
(* one asyncio event loop.  A coroutine keeps the loop until it reaches an *)
(* await that performs I/O; `running` names the coroutine holding the loop *)
(* and Suspends(point) says which code positions give it up.               *)
(***************************************************************************)
EXTENDS Integers, Sequences, FiniteSets, TLC

VARIABLES
    db,         \* the services table: id -> row, or NoRow
    nextId,     \* next primary key the store hands out
    services,   \* ServiceRegistry.services: name -> config dict
    pending,    \* reload tasks submitted with BackgroundTasks.add_task, not yet run
    running,    \* the coroutine holding the event loop, or NoTask
    reload,     \* position and locals of the reload coroutine
    fwd,        \* position and locals of the forward_request coroutine
    hc,         \* position and locals of the health_check coroutine
    hca,        \* position and locals of the health-check-all background task
    submitted,  \* reload tasks ever submitted with BackgroundTasks.add_task
    auth,       \* position and locals of the require_role wrapper
    rl,         \* rate limiter: client identity -> window record, or NoWindow
    rlreq,      \* rate limiter: request slot -> position of its check
    seen,       \* rate limiter: client identity -> requests that arrived in its window
    now,        \* wall clock, in seconds
    held,       \* the dict a caller keeps from an earlier list_services(), or NoHeld
    last        \* the most recent completed call and what it returned

\* the rate limiter's state and the clock
rlVars == <<rl, rlreq, seen, now>>

\* the store, the registry and the coroutines working on them
regVars == <<db, nextId, services, pending, reload, fwd, hc, hca, submitted, auth, held>>

vars == <<db, nextId, services, pending, running, reload, fwd, hc, hca, submitted, auth, rl, rlreq, seen, now, held, last>>

-----------------------------------------------------------------------------
(* Bounds of the model *)

MaxId == 2          \* rows ever created in the store
MaxPending == 2     \* reload tasks waiting in the background queue
MaxSubmitted == 3   \* reload tasks submitted in one run of the gateway
Limit == 3          \* the rate limit in force (settings.RATE_LIMIT_PER_MINUTE is
                    \* read from the environment, 60 by default)
MaxOver == 2        \* requests one identity sends beyond the limit in one window
MaxSlots == 2       \* requests inside the rate-limit middleware at once
MaxTicks == 2       \* clock steps of half a window

Names == {"a", "b"}
Clients == {"c1", "c2"}
Urls == {"u1", "u2"}

-----------------------------------------------------------------------------
(* Python values *)

\* None, as returned by dict.get on a missing key
None == [absent |-> TRUE]

\* the empty dict {}
EmptyDict == [k \in {} |-> TRUE]

\* the orders in which list(d.keys()) can list a dict's keys: the order of
\* insertion, which depends on the loads and adds that built the dict
Orderings(S) ==
    {q \in [1..Cardinality(S) -> S] : \A i, j \in 1..Cardinality(S) : i /= j => q[i] /= q[j]}

\* Python truthiness of an Optional[dict]: None and {} are falsy
Truthy(x) == x /= None /\ DOMAIN x /= {}

\* d with d[k] = v  (dict item assignment)
DictSet(d, k, v) == [x \in (DOMAIN d) \cup {k} |-> IF x = k THEN v ELSE d[x]]

\* d without key k  (del d[k])
DictDel(d, k) == [x \in (DOMAIN d) \ {k} |-> d[x]]

-----------------------------------------------------------------------------
(* The store: src/models/service.py, src/crud/service.py *)

NoRow == None

\* column defaults of the Service model
DefaultHealthCheckPath == "/health"
DefaultTimeout == 30

\* last_health_check of a row that was never probed (NULL)
NoTimestamp == -1

Ids == 1..MaxId

RowIds(d) == {i \in DOMAIN d : d[i] /= NoRow}

\* get_service_by_id
get_service_by_id(d, id) == IF id \in RowIds(d) THEN d[id] ELSE None

\* get_service_by_name finding no record, whatever the store holds
get_service_by_name_blind(d, name) == {}

\* get_service_by_name: the ids holding that name (the column is unique)
get_service_by_name(d, name) == {i \in RowIds(d) : d[i].name = name}

\* ascending sequence of the elements of a finite set of integers
RECURSIVE SortedRange(_, _, _)
SortedRange(S, lo, hi) ==
    IF lo = hi THEN (IF lo \in S THEN <<lo>> ELSE <<>>)
    ELSE LET mid == (lo + hi) \div 2
         IN SortedRange(S, lo, mid) \o SortedRange(S, mid + 1, hi)

SortedSeq(S) ==
    IF S = {} THEN <<>>
    ELSE SortedRange(S, CHOOSE x \in S : \A y \in S : x <= y,
                        CHOOSE x \in S : \A y \in S : y <= x)

\* first n elements of a sequence
Take(s, n) == IF Len(s) <= n THEN s ELSE SubSeq(s, 1, n)

\* s without its first n elements
Drop(s, n) == IF Len(s) <= n THEN <<>> ELSE SubSeq(s, n + 1, Len(s))

\* get_services(db, skip, limit, active_only): the ids of the selected rows
get_services(d, skip, limit, active_only) ==
    LET sel == {i \in RowIds(d) : (~active_only) \/ d[i].is_active}
    IN Take(Drop(SortedSeq(sel), skip), limit)

\* defaults of get_services' skip and limit parameters
DefaultSkip == 0
DefaultLimit == 100

\* create_service: the row written for a ServiceCreate payload
create_service(name, url, active) ==
    [name |-> name, url |-> url, is_active |-> active,
     health_check_path |-> DefaultHealthCheckPath,
     timeout_seconds |-> DefaultTimeout,
     health_status |-> "unknown", last_health_check |-> NoTimestamp]

\* update_service_health: the table after the call at time t
update_service_health(d, id, health_status, t) ==
    IF get_service_by_id(d, id) = None
    THEN d
    ELSE [d EXCEPT ![id] = [@ EXCEPT !.health_status = health_status,
                                     !.last_health_check = t]]

\* get_service_stats: five counts, each by its own filter
get_service_stats(d) ==
    [total_services     |-> Cardinality(RowIds(d)),
     active_services    |-> Cardinality({i \in RowIds(d) : d[i].is_active = TRUE}),
     healthy_services   |-> Cardinality({i \in RowIds(d) : d[i].health_status = "healthy"}),
     unhealthy_services |-> Cardinality({i \in RowIds(d) : d[i].health_status = "unhealthy"}),
     unknown_services   |-> Cardinality({i \in RowIds(d) : d[i].health_status = "unknown"})]

\* update_service: setattr for every field the ServiceUpdate payload sets
update_service(row, upd) ==
    [f \in DOMAIN row |-> IF f \in DOMAIN upd THEN upd[f] ELSE row[f]]

\* a ServiceUpdate that declares the health fields too
ServiceUpdateFields_health ==
    {"display_name", "url", "health_check_path", "timeout_seconds",
     "rate_limit_per_minute", "is_active", "description", "service_metadata",
     "health_status", "last_health_check"}

\* the fields ServiceUpdate declares
ServiceUpdateFields ==
    {"display_name", "url", "health_check_path", "timeout_seconds",
     "rate_limit_per_minute", "is_active", "description", "service_metadata"}

\* a schema that keeps every field of the request body
ServiceUpdate_any(body) == body

\* ServiceUpdate(**body).model_dump(exclude_unset=True): the fields of the
\* body that the schema declares; the others are ignored
ServiceUpdate(body) == [f \in (DOMAIN body) \cap ServiceUpdateFields |-> body[f]]

\* request bodies of PUT /services/{id}, some carrying fields the schema
\* does not declare
UpdateBodies ==
    {[is_active |-> b] : b \in BOOLEAN} \cup {[url |-> u] : u \in Urls}
    \cup {[name |-> n, url |-> u] : n \in Names, u \in Urls}
    \cup {[health_status |-> "unknown", last_health_check |-> NoTimestamp,
           is_active |-> b] : b \in BOOLEAN}

\* ServiceUpdate payloads (exclude_unset): no payload can carry a name
Updates == {ServiceUpdate(body) : body \in UpdateBodies}

-----------------------------------------------------------------------------
(* ServiceRegistry: src/services/services.py *)

\* the config dict _load_services builds for one row
LoadedEntry(id, row) ==
    [id |-> id, url |-> row.url, health_check |-> row.health_check_path,
     timeout |-> row.timeout_seconds]

\* a lookup that answers a default config for a name it does not hold
get_service_default(name) ==
    IF name \in DOMAIN services THEN services[name] ELSE [url |-> "u1"]

\* ServiceRegistry.get_service: self.services.get(name)
get_service(name) == IF name \in DOMAIN services THEN services[name] ELSE None

\* ServiceRegistry.list_services: self.services.copy()
list_services == services

\* no dict is kept by a caller
NoHeld == None

\* list_services returning self.services itself
services_copy_aliased(svcs) == [alias |-> TRUE, items |-> EmptyDict]

\* self.services.copy(): a new dict object with the items of the registry's;
\* `alias` tells whether the object is the one bound to self.services
services_copy(svcs) == [alias |-> FALSE, items |-> svcs]

\* the items of a dict object, given the items of the registry's dict
dict_items(obj, svcs) == IF obj.alias THEN svcs ELSE obj.items

\* `self.services = {}` binds a new object: a kept reference to the old one
\* keeps the old items and is no longer the registry's dict
rebind_services(obj, svcs) ==
    IF obj /= NoHeld /\ obj.alias THEN [alias |-> FALSE, items |-> svcs] ELSE obj

\* the whole mapping a load of the given ids builds
\* (the entry of a later row replaces that of an earlier row of the same
\* name, and a loaded entry replaces what the mapping held under the name)
RECURSIVE LoadRows(_, _)
LoadRows(d, ids) ==
    IF ids = <<>> THEN EmptyDict
    ELSE IF Len(ids) = 1
    THEN d[Head(ids)].name :> LoadedEntry(Head(ids), d[Head(ids)])
    ELSE LET h == Len(ids) \div 2
         IN LoadRows(d, SubSeq(ids, h + 1, Len(ids))) @@ LoadRows(d, SubSeq(ids, 1, h))

LoadAll(d, ids, acc) == LoadRows(d, ids) @@ acc

\* add_service that rebuilds the mapping from the new entry alone
add_service_drops_others(svcs, name, config) ==
    IF "url" \notin DOMAIN config
    THEN [services |-> svcs, ret |-> FALSE]
    ELSE [services |-> DictSet(EmptyDict, name, config), ret |-> TRUE]

\* add_service without the required-field check
add_service_unvalidated(svcs, name, config) ==
    [services |-> DictSet(svcs, name, config), ret |-> TRUE]

\* ServiceRegistry.add_service: the registry afterwards and the value returned
add_service(svcs, name, config) ==
    IF "url" \notin DOMAIN config
    THEN [services |-> svcs, ret |-> FALSE]
    ELSE [services |-> DictSet(svcs, name, config), ret |-> TRUE]

\* remove_service that reports success whether or not the name was there
remove_service_always_true(svcs, name) ==
    [services |-> DictDel(svcs, name), ret |-> TRUE]

\* ServiceRegistry.remove_service: the registry afterwards and the value returned
remove_service(svcs, name) ==
    IF name \in DOMAIN svcs
    THEN [services |-> DictDel(svcs, name), ret |-> TRUE]
    ELSE [services |-> svcs, ret |-> FALSE]

\* ServiceRegistry.initialize, except branch: the registry after a failed load
initialize_except(svcs) == EmptyDict

\* a handler that drops the task instead of adding it
add_task_dropped(queued) == queued

\* an add_task that queues the task twice
add_task_twice(queued) == queued + 2

\* background_tasks.add_task(reload_registry_background, registry): the task
\* joins those that run once the response has been sent
add_task(queued) == queued + 1

\* an initialize without its try/except
initialize_unhandled(load_raised) ==
    [propagates |-> load_raised, logged |-> IF load_raised THEN "nothing" ELSE "info"]

\* ServiceRegistry.initialize, lines 42-53: an exception of the load is
\* caught and logged as an error; reload (lines 98-99) awaits initialize and
\* adds nothing that raises
initialize_handles(load_raised) ==
    [propagates |-> FALSE, logged |-> IF load_raised THEN "error" ELSE "info"]

\* reload_registry_background, lines 51-55: an exception of reload() is
\* caught and logged
reload_registry_background_handles(reload_raised) ==
    [propagates |-> FALSE, logged |-> IF reload_raised THEN "error" ELSE "info"]

\* forward_request without the lookup check
forward_resolve_unchecked(service) == "request"

\* ServiceProxy.forward_request, lines 154-156: raise or go on to the backend
forward_resolve(service) ==
    IF ~Truthy(service) THEN "ServiceNotFound" ELSE "request"

\* str.lower() on the letters header names are spelled with here
LowerChar(c) ==
    CASE c = "H" -> "h"
      [] c = "O" -> "o"
      [] c = "S" -> "s"
      [] c = "T" -> "t"
      [] c = "X" -> "x"
      [] c = "I" -> "i"
      [] OTHER -> c

\* k.lower() of a header name, a sequence of characters
lower(k) == [i \in 1..Len(k) |-> LowerChar(k[i])]

\* the literal "host"
HostKey == <<"h", "o", "s", "t">>

\* a filter that drops only the spelling "Host"
filter_headers_exact(headers) ==
    [k \in {h \in DOMAIN headers : h /= <<"H", "o", "s", "t">>} |-> headers[k]]

\* forward_request line 162: {k: v for k, v in headers.items() if k.lower() != "host"}
filter_headers(headers) ==
    [k \in {h \in DOMAIN headers : lower(h) /= HostKey} |-> headers[k]]

\* forward_request lines 159-173: the arguments of http_client.request
backend_request(service, req) ==
    [method |-> req.method,
     url |-> <<service.url, req.path>>,
     headers |-> filter_headers(req.headers),
     content |-> req.body,
     params |-> req.params,
     timeout |-> IF "timeout" \in DOMAIN service THEN service.timeout ELSE DefaultTimeout]

\* an except branch that issues the request once more before giving up
forward_except_retry(sent) == IF sent < 2 THEN "retry" ELSE "raise"

\* forward_request lines 184-193: log the failure and re-raise it
forward_except(sent) == "raise"

\* the proxy route answers a failure of forward_request with this status
proxy_error_status == 500

\* inbound requests handed to forward_request
Methods == {"GET", "POST"}
Paths == {"/items", "/items/1"}
HeaderNames ==
    {<<"H", "o", "s", "t">>, <<"h", "o", "s", "t">>, <<"H", "O", "S", "T">>,
     <<"h", "o", "s", "t", "s">>, <<"X", "-", "I", "d">>}
HeaderDicts == UNION {[S -> {"v"}] : S \in SUBSET HeaderNames}
Bodies == {None, [bytes |-> "b1"]}
ParamDicts == {None, [x |-> "1"]}
Requests ==
    [method : Methods, path : Paths, headers : HeaderDicts, body : Bodies, params : ParamDicts]

\* a GET without headers, body or query
PlainRequest ==
    [method |-> "GET", path |-> "/items", headers |-> EmptyDict, body |-> None, params |-> None]

\* what the awaited backend request comes back with
BackendOutcomes ==
    {[kind |-> "response", code |-> c] : c \in {200, 500}}
    \cup {[kind |-> "connect_error"], [kind |-> "timeout"]}

\* str.startswith on character sequences
startswith(str, prefix) ==
    Len(str) >= Len(prefix) /\ SubSeq(str, 1, Len(prefix)) = prefix

\* str.replace(old, ""): every occurrence of old removed, left to right
RECURSIVE str_remove(_, _)
str_remove(str, old) ==
    IF Len(str) < Len(old) THEN str
    ELSE IF SubSeq(str, 1, Len(old)) = old
         THEN str_remove(SubSeq(str, Len(old) + 1, Len(str)), old)
         ELSE <<Head(str)>> \o str_remove(Tail(str), old)

\* the literal "Bearer "
BearerPrefix == <<"B", "e", "a", "r", "e", "r", " ">>

\* request.headers.get("Authorization"): absent, or the header's characters
NoHeader == [present |-> FALSE]
AuthorizationHeaders ==
    {NoHeader}
    \cup {[present |-> TRUE, value |-> v] : v \in
            {<<>>,
             <<"B", "a", "s", "i", "c", " ", "t">>,
             <<"b", "e", "a", "r", "e", "r", " ", "t">>,
             <<"B", "e", "a", "r", "e", "r">>,
             <<"B", "e", "a", "r", "e", "r", " ">>,
             <<"B", "e", "a", "r", "e", "r", " ", "t">>}}

\* a wrapper that asks the auth server whatever the header looks like
require_role_header_unchecked(authorization) ==
    [ok |-> TRUE,
     token |-> IF authorization.present THEN str_remove(authorization.value, BearerPrefix)
               ELSE <<>>]

\* require_role.wrapper lines 99-107: 401 unless the header is there and
\* starts with "Bearer "; the token is the header without that prefix
require_role_header(authorization) ==
    IF ~authorization.present \/ authorization.value = <<>>
       \/ ~startswith(authorization.value, BearerPrefix)
    THEN [ok |-> FALSE, status |-> 401]
    ELSE [ok |-> TRUE, token |-> str_remove(authorization.value, BearerPrefix)]

\* what the POST to the auth server comes back with
AuthAnswers ==
    {[kind |-> "status", code |-> c] : c \in {200, 401, 403, 500}}
    \cup {[kind |-> "request_error"]}

\* a verification that lets every answer but 401 and 403 through
verify_role_lenient(answer) ==
    IF answer.kind = "status" /\ answer.code \in {401, 403}
    THEN [ok |-> FALSE, status |-> answer.code]
    ELSE [ok |-> TRUE]

\* verify_role_with_auth_server lines 31-61: 401 and 403 are relayed, any
\* other status but 200 becomes 500, a request error 503
verify_role_with_auth_server(answer) ==
    IF answer.kind = "request_error" THEN [ok |-> FALSE, status |-> 503]
    ELSE IF answer.code = 401 THEN [ok |-> FALSE, status |-> 401]
    ELSE IF answer.code = 403 THEN [ok |-> FALSE, status |-> 403]
    ELSE IF answer.code /= 200 THEN [ok |-> FALSE, status |-> 500]
    ELSE [ok |-> TRUE]

\* admin requests: the handler asked for and its arguments
AdminCalls ==
    {[handler |-> "create_new_service", name |-> n] : n \in Names}
    \cup {[handler |-> "update_existing_service", id |-> 1],
          [handler |-> "delete_existing_service", id |-> 1],
          [handler |-> "reload_service_registry"],
          [handler |-> "health_check_all_services"]}

\* config dicts a caller passes to add_service; the last two lack "url"
AddConfigs ==
    {[url |-> u] : u \in Urls}
    \cup {[url |-> "u1", health_check |-> DefaultHealthCheckPath, timeout |-> DefaultTimeout]}
    \cup {[timeout |-> DefaultTimeout], EmptyDict}

\* HTTP status codes a backend answers a probe with
Statuses == {200, 204, 298, 299, 404, 500}

\* what the GET of a probe comes back with: a response, or an exception
Answers ==
    {[kind |-> "status", code |-> c] : c \in Statuses}
    \cup {[kind |-> "connect_error"], [kind |-> "timeout"]}

\* health_check line 108: the url probed
health_url(service) ==
    <<service.url,
      IF "health_check" \in DOMAIN service THEN service.health_check
      ELSE DefaultHealthCheckPath>>

\* a probe that accepts the whole 2xx range
is_healthy_2xx(code) == code >= 200 /\ code < 299

\* health_check line 110: is_healthy = bool(response.status_code == 200)
is_healthy(code) == code = 200

\* `with SessionLocal() as db: update_service_health(db, service["id"], status)`:
\* the session or the write may raise, and service["id"] raises KeyError
\* for a config without "id"
persist_health(d, service, health_status, raises, t) ==
    IF raises \/ "id" \notin DOMAIN service
    THEN [raised |-> TRUE, db |-> d]
    ELSE [raised |-> FALSE, db |-> update_service_health(d, service.id, health_status, t)]

\* an except branch whose second persistence call is not itself guarded
health_check_except_unguarded(d, service, raises, t, first_raised) ==
    LET q == persist_health(d, service, "unhealthy", raises, t)
    IN [db |-> q.db, ret |-> FALSE, raised |-> q.raised,
        persist_raised |-> first_raised,
        recorded |-> IF q.raised THEN "nothing" ELSE "unhealthy"]

\* an except branch that records the status "error"
health_check_except_error(d, service, raises, t, first_raised) ==
    LET q == persist_health(d, service, "error", raises, t)
    IN [db |-> q.db, ret |-> FALSE, raised |-> FALSE,
        persist_raised |-> first_raised,
        recorded |-> IF q.raised THEN "nothing" ELSE "error"]

\* health_check lines 124-134: log, try to record unhealthy (an exception of
\* that second write is swallowed by `except Exception: pass`), return False
health_check_except(d, service, raises, t, first_raised) ==
    LET q == persist_health(d, service, "unhealthy", raises, t)
    IN [db |-> q.db, ret |-> FALSE, raised |-> FALSE,
        persist_raised |-> first_raised,
        recorded |-> IF q.raised THEN "nothing" ELSE "unhealthy"]

\* health_check lines 109-134, once the GET has come back
health_check_resume(d, service, answer, raises1, raises2, t) ==
    IF answer.kind = "status"
    THEN LET healthy == is_healthy(answer.code)
             health_status == IF healthy THEN "healthy" ELSE "unhealthy"
             p == persist_health(d, service, health_status, raises1, t)
         IN IF p.raised
            THEN health_check_except(d, service, raises2, t, TRUE)
            ELSE [db |-> p.db, ret |-> healthy, raised |-> FALSE,
                  persist_raised |-> FALSE, recorded |-> health_status]
    ELSE health_check_except(d, service, raises2, t, FALSE)

-----------------------------------------------------------------------------
(* Rate limiter (section 4.4): fixed-window counting per client identity *)

WindowSeconds == 60

Slots == 1..MaxSlots

NoWindow == None

IdleSlot == [pc |-> "idle"]

\* the limiter's entry for a client, or NoWindow
WindowOf(state, client) == IF client \in DOMAIN state THEN state[client] ELSE NoWindow

\* a check that goes on counting across a change of window
check_rate_limit_no_reset(entry, t) ==
    LET currentWindow == t \div WindowSeconds
        count == IF entry = NoWindow THEN 1 ELSE entry.count + 1
    IN [entry |-> [window |-> currentWindow, count |-> count],
        allowed |-> ~(count > Limit)]

\* a check that rejects the request that reaches the limit
check_rate_limit_off_by_one(entry, t) ==
    LET currentWindow == t \div WindowSeconds
        count == IF entry = NoWindow \/ entry.window /= currentWindow
                 THEN 1 ELSE entry.count + 1
    IN [entry |-> [window |-> currentWindow, count |-> count],
        allowed |-> ~(count >= Limit)]

\* one check at time t against the entry read for the client: the entry to
\* store and the decision.  A missing or stale window is reset to count 0,
\* the count is incremented, and the request is rejected when count > limit
\* (the rejected request still counts).
check_rate_limit(entry, t) ==
    LET currentWindow == t \div WindowSeconds
        count == IF entry = NoWindow \/ entry.window /= currentWindow
                 THEN 1 ELSE entry.count + 1
    IN [entry |-> [window |-> currentWindow, count |-> count],
        allowed |-> ~(count > Limit)]

\* a check that awaits between reading the entry and storing it
RateCheckSuspends_between(point) == TRUE

\* positions of the check at which the middleware gives up the loop: only
\* the hand-over to the next handler, after the decision
RateCheckSuspends(point) == point = "call_next"

\* settings.PROJECT_NAME
GatewayName == "bifrost"

HealthPath == "/health"
RootPath == "/"

\* paths of the gateway's own endpoints a request can ask for
RequestPaths == {HealthPath, RootPath}

\* what the endpoint behind the middleware answers: GET /health is a
\* constant that looks at no state
endpoint(path) ==
    IF path = HealthPath
    THEN [status |-> 200, body |-> [status |-> "healthy", service |-> GatewayName]]
    ELSE [status |-> 200, body |-> [message |-> "welcome"]]

\* the ghost count of a client's arrivals and admissions in the window of t
SeenAt(client, t) ==
    IF client \in DOMAIN seen /\ seen[client].window = t \div WindowSeconds
    THEN seen[client]
    ELSE [window |-> t \div WindowSeconds, n |-> 0, admitted |-> 0]

-----------------------------------------------------------------------------
(* The event loop *)

\* a loader that gives up the loop between its statements
Suspends_everywhere(point) == TRUE

\* code positions at which a coroutine awaits I/O and gives up the loop;
\* _load_services/initialize/reload hold none between their first and last line
Suspends(point) == point \in {"http_request", "http_get", "return"}

\* no coroutine holds the loop
NoTask == [task |-> "none"]

ReloadTask == [task |-> "reload"]

HealthAllTask == [task |-> "health_check_all"]

Yield(task, point) == IF Suspends(point) THEN NoTask ELSE task

\* task may take its next step: it holds the loop, or the loop is free
MayRun(task) == running \in {NoTask, task}

Idle == running = NoTask

IdleReload == [pc |-> "idle"]
IdleFwd == [pc |-> "idle"]
IdleHc == [pc |-> "idle"]
IdleHca == [pc |-> "idle"]
IdleAuth == [pc |-> "idle"]
NoCall == [op |-> "none"]

\* a reload task is submitted or loading
ReloadInFlight == pending > 0 \/ reload.pc /= "idle"

\* the mapping before the reload in progress, and the one it is building
OldSnapshot == IF reload.pc = "idle" THEN services ELSE reload.pre
NewSnapshot == IF reload.pc = "idle" THEN services ELSE reload.post

-----------------------------------------------------------------------------
(* Initial state: an empty table, a constructed registry, nothing scheduled *)

Init ==
    /\ db = [i \in Ids |-> NoRow]
    /\ nextId = 1
    /\ services = EmptyDict
    /\ pending = 0
    /\ running = NoTask
    /\ reload = IdleReload
    /\ fwd = IdleFwd
    /\ hc = IdleHc
    /\ hca = IdleHca
    /\ submitted = 0
    /\ auth = IdleAuth
    /\ rl = EmptyDict
    /\ rlreq = [s \in Slots |-> IdleSlot]
    /\ seen = EmptyDict
    /\ now = 0
    /\ held = NoHeld
    /\ last = NoCall

-----------------------------------------------------------------------------
(* Registry calls made directly by a caller on the event loop *)

AddService(name, config) ==
    /\ Idle
    /\ LET r == add_service(services, name, config)
       IN /\ services' = r.services
          /\ last' = [op |-> "add_service", name |-> name, config |-> config,
                      ret |-> r.ret, pre |-> services]
    /\ UNCHANGED <<db, nextId, pending, running, reload, fwd, hc, rlVars, held, hca, submitted, auth>>

RemoveService(name) ==
    /\ Idle
    /\ LET r == remove_service(services, name)
       IN /\ services' = r.services
          /\ last' = [op |-> "remove_service", name |-> name,
                      ret |-> r.ret, pre |-> services]
    /\ UNCHANGED <<db, nextId, pending, running, reload, fwd, hc, rlVars, held, hca, submitted, auth>>

GetService(name) ==
    /\ Idle
    /\ last' = [op |-> "get_service", name |-> name, value |-> get_service(name),
                during |-> ReloadInFlight,
                old |-> IF name \in DOMAIN OldSnapshot THEN OldSnapshot[name] ELSE None,
                new |-> IF name \in DOMAIN NewSnapshot THEN NewSnapshot[name] ELSE None]
    /\ UNCHANGED <<db, nextId, services, pending, running, reload, fwd, hc, rlVars, held, hca, submitted, auth>>

ListServices ==
    /\ Idle
    /\ last' = [op |-> "list_services", value |-> list_services,
                during |-> ReloadInFlight,
                old |-> OldSnapshot, new |-> NewSnapshot]
    /\ UNCHANGED <<db, nextId, services, pending, running, reload, fwd, hc, rlVars, held, hca, submitted, auth>>

\* a caller calls list_services() and keeps the dict it returns
ListServicesKept ==
    /\ Idle
    /\ held' = services_copy(services)
    /\ last' = [op |-> "list_services_kept", value |-> list_services]
    /\ UNCHANGED <<db, nextId, services, pending, running, reload, fwd, hc, rlVars, hca, submitted, auth>>

\* the caller stores a key in the dict it keeps: m[name] = config
KeptSetItem(name, config) ==
    /\ Idle
    /\ held /= NoHeld
    /\ IF held.alias
       THEN services' = DictSet(services, name, config) /\ UNCHANGED held
       ELSE held' = [held EXCEPT !.items = DictSet(@, name, config)] /\ UNCHANGED services
    /\ last' = [op |-> "kept_setitem", name |-> name]
    /\ UNCHANGED <<db, nextId, pending, running, reload, fwd, hc, rlVars, hca, submitted, auth>>

\* the caller deletes a key of the dict it keeps: del m[name]
KeptDelItem(name) ==
    /\ Idle
    /\ held /= NoHeld
    /\ name \in DOMAIN dict_items(held, services)
    /\ IF held.alias
       THEN services' = DictDel(services, name) /\ UNCHANGED held
       ELSE held' = [held EXCEPT !.items = DictDel(@, name)] /\ UNCHANGED services
    /\ last' = [op |-> "kept_delitem", name |-> name]
    /\ UNCHANGED <<db, nextId, pending, running, reload, fwd, hc, rlVars, hca, submitted, auth>>

-----------------------------------------------------------------------------
(* Admin handlers: src/api/admin/services.py.  Each body runs without an   *)
(* await; the reload it adds to BackgroundTasks runs after the response.   *)
(* The bodies leave `auth` to the require_role wrapper that calls them.    *)

\* a handler called for a request the wrapper has let through
Admitted(handler) == handler /\ UNCHANGED auth

create_new_service(name, url, active) ==
    /\ Idle
    /\ IF get_service_by_name(db, name) /= {}
       THEN /\ last' = [op |-> "create", name |-> name, status |-> 400]
            /\ UNCHANGED <<db, nextId, pending, submitted>>
       ELSE /\ nextId <= MaxId
            /\ pending < MaxPending
            /\ submitted < MaxSubmitted
            /\ db' = [db EXCEPT ![nextId] = create_service(name, url, active)]
            /\ nextId' = nextId + 1
            /\ pending' = add_task(pending)
            /\ submitted' = submitted + 1
            /\ last' = [op |-> "create", name |-> name, status |-> 201]
    /\ UNCHANGED <<services, running, reload, fwd, hc, rlVars, held, hca>>

update_existing_service(id, upd) ==
    /\ Idle
    /\ IF get_service_by_id(db, id) = None
       THEN /\ last' = [op |-> "update", id |-> id, status |-> 404]
            /\ UNCHANGED <<db, pending, submitted>>
       ELSE /\ pending < MaxPending
            /\ submitted < MaxSubmitted
            /\ db' = [db EXCEPT ![id] = update_service(db[id], upd)]
            /\ pending' = add_task(pending)
            /\ submitted' = submitted + 1
            /\ last' = [op |-> "update", id |-> id, status |-> 200]
    /\ UNCHANGED <<nextId, services, running, reload, fwd, hc, rlVars, held, hca>>

delete_existing_service(id) ==
    /\ Idle
    /\ IF get_service_by_id(db, id) = None
       THEN /\ last' = [op |-> "delete", id |-> id, status |-> 404]
            /\ UNCHANGED <<db, pending, submitted>>
       ELSE /\ pending < MaxPending
            /\ submitted < MaxSubmitted
            /\ db' = [db EXCEPT ![id] = NoRow]
            /\ pending' = add_task(pending)
            /\ submitted' = submitted + 1
            /\ last' = [op |-> "delete", id |-> id, status |-> 204]
    /\ UNCHANGED <<nextId, services, running, reload, fwd, hc, rlVars, held, hca>>

reload_service_registry ==
    /\ Idle
    /\ pending < MaxPending
    /\ submitted < MaxSubmitted
    /\ pending' = add_task(pending)
    /\ submitted' = submitted + 1
    /\ last' = [op |-> "reload_trigger", status |-> 200, response |-> "processing",
                pre |-> services]
    /\ UNCHANGED <<db, nextId, services, running, reload, fwd, hc, rlVars, held, hca>>

-----------------------------------------------------------------------------
(* reload_registry_background -> ServiceRegistry.reload -> initialize ->   *)
(* _load_services, statement by statement                                  *)

\* the task starts and runs get_services(db_session, active_only=True)
ReloadQuery ==
    /\ Idle
    /\ pending > 0
    /\ reload.pc = "idle"
    /\ pending' = pending - 1
    /\ \E raises \in BOOLEAN :
         IF raises
         THEN reload' = [pc |-> "except", pre |-> services, post |-> initialize_except(services),
                         rows |-> <<>>]
         ELSE LET ids == get_services(db, DefaultSkip, DefaultLimit, TRUE)
              IN reload' = [pc |-> "clear", pre |-> services,
                            post |-> LoadAll(db, ids, EmptyDict), rows |-> ids]
    /\ running' = Yield(ReloadTask, "load_query")
    /\ last' = [op |-> "reload_begin"]
    /\ UNCHANGED <<db, nextId, services, fwd, hc, rlVars, held, hca, submitted, auth>>

\* self.services = {}
ReloadClear ==
    /\ MayRun(ReloadTask)
    /\ reload.pc = "clear"
    /\ services' = EmptyDict
    /\ reload' = [reload EXCEPT !.pc = "loop"]
    /\ running' = Yield(ReloadTask, "load_clear")
    /\ held' = rebind_services(held, services)
    /\ UNCHANGED <<db, nextId, pending, fwd, hc, rlVars, hca, submitted, auth, last>>

\* one iteration of the for loop: the entry is built and stored, or building it raises
ReloadInsert ==
    /\ MayRun(ReloadTask)
    /\ reload.pc = "loop"
    /\ reload.rows /= <<>>
    /\ \E raises \in BOOLEAN :
         IF raises \/ Head(reload.rows) \notin RowIds(db)
         THEN /\ reload' = [reload EXCEPT !.pc = "except",
                                          !.post = initialize_except(services)]
              /\ UNCHANGED services
         ELSE LET id == Head(reload.rows)
              IN /\ services' = DictSet(services, db[id].name, LoadedEntry(id, db[id]))
                 /\ reload' = [reload EXCEPT !.rows = Tail(reload.rows)]
    /\ running' = Yield(ReloadTask, "load_insert")
    /\ UNCHANGED <<db, nextId, pending, fwd, hc, rlVars, held, hca, submitted, auth, last>>

\* the loop is over: initialize logs the count, reload returns
ReloadDone ==
    /\ MayRun(ReloadTask)
    /\ reload.pc = "loop"
    /\ reload.rows = <<>>
    /\ reload' = IdleReload
    /\ running' = NoTask
    /\ LET r == initialize_handles(FALSE)
       IN last' = [op |-> "reload", ok |-> TRUE, logged |-> r.logged, pre |-> reload.pre,
                   reload_raised |-> r.propagates,
                   task_raised |-> reload_registry_background_handles(r.propagates).propagates]
    /\ UNCHANGED <<db, nextId, services, pending, fwd, hc, rlVars, held, hca, submitted, auth>>

\* initialize's except branch: log the error, self.services = {}
ReloadExcept ==
    /\ MayRun(ReloadTask)
    /\ reload.pc = "except"
    /\ services' = initialize_except(services)
    /\ reload' = IdleReload
    /\ running' = NoTask
    /\ LET r == initialize_handles(TRUE)
       IN last' = [op |-> "reload", ok |-> FALSE, logged |-> r.logged, pre |-> reload.pre,
                   reload_raised |-> r.propagates,
                   task_raised |-> reload_registry_background_handles(r.propagates).propagates]
    /\ held' = rebind_services(held, services)
    /\ UNCHANGED <<db, nextId, pending, fwd, hc, rlVars, hca, submitted, auth>>

-----------------------------------------------------------------------------
(* ServiceProxy.forward_request *)

\* the store holds a row of that name with is_active = false
InactiveInStore(name) == \E i \in RowIds(db) : db[i].name = name /\ ~db[i].is_active

\* lines 154-173: look the service up; raise, or build the backend request,
\* issue it and await it
ForwardRequest(name, req) ==
    /\ Idle
    /\ fwd.pc = "idle"
    /\ LET service == get_service(name)
           outcome == forward_resolve(service)
       IN /\ last' = IF outcome = "request" /\ Truthy(service)
                     THEN [op |-> "forward_request", name |-> name, outcome |-> outcome,
                           registered |-> name \in DOMAIN services,
                           inactive |-> InactiveInStore(name),
                           inbound |-> req, definition |-> service,
                           issued |-> backend_request(service, req)]
                     ELSE [op |-> "forward_request", name |-> name, outcome |-> outcome,
                           registered |-> name \in DOMAIN services,
                           inactive |-> InactiveInStore(name)]
          /\ fwd' = IF outcome = "request"
                    THEN [pc |-> "awaiting", name |-> name, sent |-> 1]
                    ELSE IdleFwd
    /\ running' = Yield(NoTask, "http_request")
    /\ UNCHANGED <<db, nextId, services, pending, reload, hc, rlVars, held, hca, submitted, auth>>

\* lines 175-193: the backend answers and the response is returned, or the
\* request fails, the failure is logged and re-raised to the route
ForwardReturn(backend) ==
    /\ Idle
    /\ fwd.pc = "awaiting"
    /\ IF backend.kind = "response"
       THEN /\ fwd' = IdleFwd
            /\ last' = [op |-> "forward_return", name |-> fwd.name, backend |-> backend,
                        outcome |-> "response", status |-> backend.code,
                        requests |-> fwd.sent]
       ELSE IF forward_except(fwd.sent) = "retry"
       THEN /\ fwd' = [fwd EXCEPT !.sent = @ + 1]
            /\ last' = [op |-> "forward_retry", name |-> fwd.name, backend |-> backend]
       ELSE /\ fwd' = IdleFwd
            /\ last' = [op |-> "forward_return", name |-> fwd.name, backend |-> backend,
                        outcome |-> "raised", status |-> proxy_error_status,
                        requests |-> fwd.sent]
    /\ UNCHANGED <<db, nextId, services, pending, running, reload, hc, rlVars, held, hca, submitted, auth>>

-----------------------------------------------------------------------------

Next ==
    \/ \E n \in Names : GetService(n)
    \/ ListServices
    \/ \E n \in Names, u \in Urls, a \in BOOLEAN : Admitted(create_new_service(n, u, a))
    \/ \E i \in Ids, u \in Updates : Admitted(update_existing_service(i, u))
    \/ \E i \in Ids : Admitted(delete_existing_service(i))
    \/ Admitted(reload_service_registry)
    \/ ReloadQuery
    \/ ReloadClear
    \/ ReloadInsert
    \/ ReloadDone
    \/ ReloadExcept
    \/ \E n \in Names : ForwardRequest(n, PlainRequest)
    \/ \E b \in {[kind |-> "response", code |-> 200], [kind |-> "connect_error"]} :
          ForwardReturn(b)

Spec == Init /\ [][Next]_vars

(* The gateway with the registry also changed directly by add_service and  *)
(* remove_service calls                                                    *)
NextDirect ==
    \/ \E n \in Names, u \in Urls, a \in BOOLEAN : Admitted(create_new_service(n, u, a))
    \/ \E i \in Ids, u \in Updates : Admitted(update_existing_service(i, u))
    \/ \E i \in Ids : Admitted(delete_existing_service(i))
    \/ ReloadQuery
    \/ ReloadClear
    \/ ReloadInsert
    \/ ReloadDone
    \/ ReloadExcept
    \/ \E n \in Names : AddService(n, [url |-> "u2"])
    \/ \E n \in Names : RemoveService(n)

SpecDirect == Init /\ [][NextDirect]_vars

(* A caller that keeps the dict list_services() returned while the        *)
(* registry goes on changing                                               *)
NextKept ==
    \/ ListServicesKept
    \/ \E n \in Names : KeptSetItem(n, [url |-> "u1"])
    \/ \E n \in Names : KeptDelItem(n)
    \/ \E n \in Names : AddService(n, [url |-> "u2"])
    \/ \E n \in Names : RemoveService(n)
    \/ \E n \in Names : Admitted(create_new_service(n, "u1", TRUE))
    \/ ReloadQuery
    \/ ReloadClear
    \/ ReloadInsert
    \/ ReloadDone
    \/ ReloadExcept

SpecKept == Init /\ [][NextKept]_vars

(* The registry driven through its own interface only *)
NextRegistry ==
    \/ \E n \in Names, c \in AddConfigs : AddService(n, c)
    \/ \E n \in Names : RemoveService(n)
    \/ \E n \in Names : GetService(n)
    \/ ListServices

SpecRegistry == Init /\ [][NextRegistry]_vars

(* The background reload as the event loop schedules it: a task that has   *)
(* been added and can take its next step is not left waiting forever.      *)
ReloadStep ==
    \/ ReloadQuery
    \/ ReloadClear
    \/ ReloadInsert
    \/ ReloadDone
    \/ ReloadExcept

\* the requests that add a reload task, and the task itself
NextFair ==
    \/ Admitted(reload_service_registry)
    \/ \E n \in Names : Admitted(create_new_service(n, "u1", TRUE))
    \/ ReloadStep

SpecFair == Init /\ [][NextFair]_vars /\ WF_vars(ReloadStep)

-----------------------------------------------------------------------------
(* ServiceRegistry.health_check *)

\* lines 103-109: look the service up; return False, or issue the GET and await it
HealthCheckStart(name) ==
    /\ Idle
    /\ hc.pc = "idle"
    /\ LET service == get_service(name)
       IN IF ~Truthy(service)
          THEN /\ last' = [op |-> "health_check", name |-> name, probed |-> FALSE,
                           ret |-> FALSE, raised |-> FALSE]
               /\ UNCHANGED hc
          ELSE /\ hc' = [pc |-> "awaiting", name |-> name, service |-> service]
               /\ last' = [op |-> "health_probe", name |-> name,
                           url |-> health_url(service)]
    /\ running' = Yield(NoTask, "http_get")
    /\ UNCHANGED <<db, nextId, services, pending, reload, fwd, rlVars, held, hca, submitted, auth>>

\* lines 109-134: the GET comes back; the status is computed and persisted
HealthCheckResume(answer, raises1, raises2) ==
    /\ Idle
    /\ hc.pc = "awaiting"
    /\ LET r == health_check_resume(db, hc.service, answer, raises1, raises2, now)
       IN /\ db' = r.db
          /\ last' = [op |-> "health_check", name |-> hc.name, probed |-> TRUE,
                      answer |-> answer, ret |-> r.ret, raised |-> r.raised,
                      store_fault |-> raises1 \/ raises2,
                      persist_raised |-> r.persist_raised, recorded |-> r.recorded]
    /\ hc' = IdleHc
    /\ UNCHANGED <<nextId, services, pending, running, reload, fwd, rlVars, held, hca, submitted, auth>>

\* stores an application can start with: rows 1..k with distinct names
StartupStores ==
    {d \in [Ids -> {NoRow} \cup {create_service(n, u, a) : n \in Names, u \in Urls, a \in BOOLEAN}] :
        /\ \A i, j \in RowIds(d) : i /= j => d[i].name /= d[j].name
        /\ \A i \in RowIds(d) : \A j \in 1..i : j \in RowIds(d)}

\* the state once the application has started: the registry constructed and
\* initialize() run against the store
InitHealth ==
    /\ db \in StartupStores
    /\ nextId = Cardinality(RowIds(db)) + 1
    /\ services = LoadAll(db, get_services(db, DefaultSkip, DefaultLimit, TRUE), EmptyDict)
    /\ pending = 0
    /\ running = NoTask
    /\ reload = IdleReload
    /\ fwd = IdleFwd
    /\ hc = IdleHc
    /\ hca = IdleHca
    /\ submitted = 0
    /\ auth = IdleAuth
    /\ rl = EmptyDict
    /\ rlreq = [s \in Slots |-> IdleSlot]
    /\ seen = EmptyDict
    /\ now = 0
    /\ held = NoHeld
    /\ last = NoCall

NextHealth ==
    \/ \E n \in Names : HealthCheckStart(n)
    \/ \E a \in Answers, r1, r2 \in BOOLEAN : HealthCheckResume(a, r1, r2)
    \/ \E n \in Names : AddService(n, [url |-> "u2"])
    \/ \E i \in Ids : Admitted(delete_existing_service(i))

SpecHealth == InitHealth /\ [][NextHealth]_vars

(* The store written by the admin handlers and by health checks, with the  *)
(* registry reloaded in the background                                     *)
NextStore ==
    \/ \E n \in Names : Admitted(create_new_service(n, "u1", TRUE))
    \/ \E i \in Ids, u \in Updates : Admitted(update_existing_service(i, u))
    \/ \E i \in Ids : Admitted(delete_existing_service(i))
    \/ \E n \in Names : HealthCheckStart(n)
    \/ \E a \in {[kind |-> "status", code |-> 200], [kind |-> "status", code |-> 500],
                  [kind |-> "timeout"]}, r1 \in BOOLEAN : HealthCheckResume(a, r1, FALSE)
    \/ ReloadStep

SpecStore == Init /\ [][NextStore]_vars

-----------------------------------------------------------------------------
(* health_check_all_services and perform_health_checks_background *)

\* lines 278-285: the entry written to `results` for one service
health_result(ret, raised) ==
    IF raised THEN "error" ELSE IF ret THEN "healthy" ELSE "unhealthy"

\* lines 291-315: the handler adds the background task and answers 202
health_check_all_services ==
    /\ Idle
    /\ hca.pc = "idle"
    /\ hca' = [pc |-> "scheduled"]
    /\ last' = [op |-> "health_check_all", status |-> 202,
                service_count |-> Cardinality(DOMAIN services)]
    /\ UNCHANGED <<db, nextId, services, pending, running, reload, fwd, hc, rlVars, held,
                   submitted>>

\* lines 270-273: the task starts; service_names = list(registry.services.keys())
HealthCheckAllBegin ==
    /\ Idle
    /\ hca.pc = "scheduled"
    /\ \E names \in Orderings(DOMAIN services) :
         hca' = [pc |-> "loop", names |-> names, todo |-> names, results |-> EmptyDict]
    /\ running' = Yield(HealthAllTask, "loop_head")
    /\ last' = [op |-> "health_all_begin"]
    /\ UNCHANGED <<db, nextId, services, pending, reload, fwd, hc, rlVars, held, submitted, auth>>

\* lines 275-277 and health_check lines 103-109: the next name is taken and
\* health_check(name) called; it returns False for a name no longer
\* registered, or issues the GET and awaits it
HealthCheckAllProbe ==
    /\ MayRun(HealthAllTask)
    /\ hca.pc = "loop"
    /\ hca.todo /= <<>>
    /\ LET name == Head(hca.todo)
           service == get_service(name)
       IN IF ~Truthy(service)
          THEN /\ hca' = [hca EXCEPT !.todo = Tail(hca.todo),
                                     !.results = DictSet(hca.results, name,
                                                         health_result(FALSE, FALSE))]
               /\ running' = Yield(HealthAllTask, "loop_head")
          ELSE /\ hca' = [pc |-> "awaiting", names |-> hca.names, todo |-> hca.todo,
                          results |-> hca.results, service |-> service]
               /\ running' = Yield(HealthAllTask, "http_get")
    /\ last' = [op |-> "health_all_probe", name |-> Head(hca.todo),
                waiting |-> Len(hca.todo) - 1]
    /\ UNCHANGED <<db, nextId, services, pending, reload, fwd, hc, rlVars, held, submitted, auth>>

\* health_check lines 109-134 and lines 277-285: the GET comes back (for a
\* timeout: once the client's timeout has expired), the status is persisted
\* and the result stored under the name
HealthCheckAllResume(answer, raises1, raises2) ==
    /\ Idle
    /\ hca.pc = "awaiting"
    /\ LET name == Head(hca.todo)
           r == health_check_resume(db, hca.service, answer, raises1, raises2, now)
       IN /\ db' = r.db
          /\ hca' = [pc |-> "loop", names |-> hca.names, todo |-> Tail(hca.todo),
                     results |-> DictSet(hca.results, name, health_result(r.ret, r.raised))]
          /\ last' = [op |-> "health_all_result", name |-> name, answer |-> answer,
                      result |-> health_result(r.ret, r.raised)]
    /\ running' = Yield(HealthAllTask, "loop_head")
    /\ UNCHANGED <<nextId, services, pending, reload, fwd, hc, rlVars, held, submitted, auth>>

\* line 287: the loop is over and the results are logged
HealthCheckAllDone ==
    /\ MayRun(HealthAllTask)
    /\ hca.pc = "loop"
    /\ hca.todo = <<>>
    /\ hca' = IdleHca
    /\ running' = NoTask
    /\ last' = [op |-> "health_all", names |-> hca.names, results |-> hca.results]
    /\ UNCHANGED <<db, nextId, services, pending, reload, fwd, hc, rlVars, held, submitted, auth>>

NextHealthAll ==
    \/ Admitted(health_check_all_services)
    \/ HealthCheckAllBegin
    \/ HealthCheckAllProbe
    \/ \E a \in Answers, r1, r2 \in BOOLEAN : HealthCheckAllResume(a, r1, r2)
    \/ HealthCheckAllDone
    \/ \E n \in Names : RemoveService(n)

SpecHealthAll == InitHealth /\ [][NextHealthAll]_vars

(* Health checks, single and of all services, while records are deleted   *)
(* or deactivated and the registry is reloaded                             *)
NextHealthReload ==
    \/ \E n \in Names : HealthCheckStart(n)
    \/ \E a \in {[kind |-> "status", code |-> 200], [kind |-> "timeout"]} :
          HealthCheckResume(a, FALSE, FALSE)
    \/ Admitted(health_check_all_services)
    \/ HealthCheckAllBegin
    \/ HealthCheckAllProbe
    \/ \E a \in {[kind |-> "status", code |-> 200], [kind |-> "timeout"]} :
          HealthCheckAllResume(a, FALSE, FALSE)
    \/ HealthCheckAllDone
    \/ \E i \in Ids : Admitted(delete_existing_service(i))
    \/ \E i \in Ids : Admitted(update_existing_service(i, [is_active |-> FALSE]))
    \/ ReloadStep

\* started on a store whose records are all active
InitHealthReload ==
    /\ InitHealth
    /\ \A i \in RowIds(db) : db[i].is_active /\ db[i].url = "u1"

SpecHealthReload == InitHealthReload /\ [][NextHealthReload]_vars

-----------------------------------------------------------------------------
(* Reloads of a registry whose store holds about as many records as        *)
(* get_services returns by default                                         *)

\* numbers of stored records, around the default limit of get_services
BulkSizes == {DefaultLimit - 1, DefaultLimit, DefaultLimit + 1}

BulkName(i) == "svc" \o ToString(i)

\* a store of n records created one after the other, the first k of them
\* deactivated since
BulkStore(n, k) ==
    [i \in 1..n |-> update_service(create_service(BulkName(i), "u1", TRUE),
                                   [is_active |-> i > k])]

\* the state once the application has started on such a store
InitBulk ==
    /\ \E n \in BulkSizes, k \in {0, 1} : db = BulkStore(n, k)
    /\ nextId = Cardinality(RowIds(db)) + 1
    /\ services = LoadAll(db, get_services(db, DefaultSkip, DefaultLimit, TRUE), EmptyDict)
    /\ pending = 0
    /\ running = NoTask
    /\ reload = IdleReload
    /\ fwd = IdleFwd
    /\ hc = IdleHc
    /\ hca = IdleHca
    /\ submitted = 0
    /\ auth = IdleAuth
    /\ rl = EmptyDict
    /\ rlreq = [s \in Slots |-> IdleSlot]
    /\ seen = EmptyDict
    /\ now = 0
    /\ held = NoHeld
    /\ last = NoCall

NextBulk ==
    \/ Admitted(reload_service_registry)
    \/ ReloadStep
    \/ \E n \in Names : AddService(n, [url |-> "u2"])

SpecBulk == InitBulk /\ [][NextBulk]_vars

-----------------------------------------------------------------------------
(* The proxy alone, on an initialized registry, for every inbound request *)

NextForward ==
    \/ \E n \in Names, req \in Requests : ForwardRequest(n, req)
    \/ \E b \in BackendOutcomes : ForwardReturn(b)

SpecForward == InitHealth /\ [][NextForward]_vars

-----------------------------------------------------------------------------
(* require_role / require_admin around the admin handlers *)

\* `return await func(*args, **kwargs)`: the body of the handler asked for
HandlerBody(call) ==
    CASE call.handler = "create_new_service" ->
            create_new_service(call.name, "u1", TRUE)
      [] call.handler = "update_existing_service" ->
            update_existing_service(call.id, [is_active |-> FALSE])
      [] call.handler = "delete_existing_service" ->
            delete_existing_service(call.id)
      [] call.handler = "reload_service_registry" ->
            reload_service_registry
      [] call.handler = "health_check_all_services" ->
            health_check_all_services

\* wrapper lines 82-110: the header is checked; the request is refused with
\* 401, or the auth server is asked and the wrapper awaits its answer
AdminRequest(call, authorization) ==
    /\ Idle
    /\ auth.pc \in {"idle", "done"}
    /\ LET h == require_role_header(authorization)
       IN IF ~h.ok
          THEN /\ auth' = [pc |-> "done", call |-> call, authorization |-> authorization,
                           asked |-> FALSE, ran |-> FALSE, status |-> h.status]
               /\ last' = [op |-> "admin_rejected", handler |-> call.handler,
                           status |-> h.status]
          ELSE /\ auth' = [pc |-> "verifying", call |-> call,
                           authorization |-> authorization, token |-> h.token]
               /\ last' = [op |-> "admin_verifying", handler |-> call.handler]
    /\ running' = Yield(NoTask, "http_request")
    /\ UNCHANGED <<db, nextId, services, pending, reload, fwd, hc, hca, submitted, rlVars, held>>

\* verify_role_with_auth_server lines 39-61 and wrapper lines 110-115: the
\* answer is in; the request is refused, or the handler body runs
AdminVerified(answer) ==
    /\ Idle
    /\ auth.pc = "verifying"
    /\ LET v == verify_role_with_auth_server(answer)
       IN IF ~v.ok
          THEN /\ auth' = [pc |-> "done", call |-> auth.call,
                           authorization |-> auth.authorization,
                           asked |-> TRUE, answer |-> answer,
                           ran |-> FALSE, status |-> v.status]
               /\ last' = [op |-> "admin_rejected", handler |-> auth.call.handler,
                           status |-> v.status]
               /\ UNCHANGED <<db, nextId, services, pending, running, reload, fwd, hc,
                              hca, submitted, rlVars, held>>
          ELSE /\ HandlerBody(auth.call)
               /\ auth' = [pc |-> "done", call |-> auth.call,
                           authorization |-> auth.authorization,
                           asked |-> TRUE, answer |-> answer,
                           ran |-> TRUE, status |-> last'.status]

NextAdmin ==
    \/ \E c \in AdminCalls, h \in AuthorizationHeaders : AdminRequest(c, h)
    \/ \E a \in AuthAnswers : AdminVerified(a)

SpecAdmin == Init /\ [][NextAdmin]_vars

-----------------------------------------------------------------------------
(* Rate-limit middleware: one request per slot *)

SlotTask(slot) == [task |-> "request", slot |-> slot]

\* a request of the client arrives: the middleware reads the client's
\* entry, whatever path the request is for
RateRead(slot, client, path) ==
    /\ Idle
    /\ rlreq[slot].pc = "idle"
    /\ SeenAt(client, now).n < Limit + MaxOver
    /\ rlreq' = [rlreq EXCEPT ![slot] =
                    [pc |-> "checking", client |-> client, path |-> path,
                     entry |-> WindowOf(rl, client), t |-> now]]
    /\ running' = IF RateCheckSuspends("read") THEN NoTask ELSE SlotTask(slot)
    /\ UNCHANGED <<regVars, rl, seen, now, last>>

\* the entry is reset or incremented and stored; the request is rejected
\* with 429 or handed to the next handler
RateDecide(slot) ==
    /\ MayRun(SlotTask(slot))
    /\ rlreq[slot].pc = "checking"
    /\ LET r == rlreq[slot]
           d == check_rate_limit(r.entry, r.t)
           g == SeenAt(r.client, r.t)
           g2 == [window |-> g.window, n |-> g.n + 1,
                  admitted |-> g.admitted + (IF d.allowed THEN 1 ELSE 0)]
       IN /\ rl' = DictSet(rl, r.client, d.entry)
          /\ seen' = DictSet(seen, r.client, g2)
          /\ rlreq' = [rlreq EXCEPT ![slot] =
                          IF d.allowed
                          THEN [pc |-> "handling", client |-> r.client, path |-> r.path]
                          ELSE IdleSlot]
          /\ last' = [op |-> "rate_check", client |-> r.client, path |-> r.path,
                      allowed |-> d.allowed, status |-> IF d.allowed THEN 200 ELSE 429,
                      ordinal |-> g2.n, window |-> g2.window, stored |-> r.entry,
                      overlapping |-> \E o \in Slots \ {slot} :
                          rlreq[o].pc /= "idle" /\ rlreq[o].client = r.client]
    /\ running' = NoTask
    /\ UNCHANGED <<regVars, now>>

\* the endpoint of the path answers and its response is returned
RateRespond(slot) ==
    /\ Idle
    /\ rlreq[slot].pc = "handling"
    /\ rlreq' = [rlreq EXCEPT ![slot] = IdleSlot]
    /\ LET resp == endpoint(rlreq[slot].path)
       IN last' = [op |-> "response", path |-> rlreq[slot].path,
                   status |-> resp.status, body |-> resp.body]
    /\ UNCHANGED <<regVars, running, rl, seen, now>>

\* the clock advances by half a window
Tick ==
    /\ Idle
    /\ now < MaxTicks * (WindowSeconds \div 2)
    /\ now' = now + WindowSeconds \div 2
    /\ UNCHANGED <<regVars, running, rl, rlreq, seen, last>>

NextRateLimit ==
    \/ \E s \in Slots, c \in Clients, p \in RequestPaths : RateRead(s, c, p)
    \/ \E s \in Slots : RateDecide(s)
    \/ \E s \in Slots : RateRespond(s)
    \/ Tick

SpecRateLimit == Init /\ [][NextRateLimit]_vars

-----------------------------------------------------------------------------
(* Claims *)

\* C1 (as claimed): after a load that failed part-way the registry holds
\* exactly the snapshot it held before the load started, and the failure
\* was logged as an error.
C1_FailedLoadKeepsSnapshot ==
    (last.op = "reload" /\ ~last.ok) =>
        (services = last.pre /\ last.logged = "error")

\* C2: a list_services() or get_service() call made while a reload is
\* submitted or loading sees the whole pre-reload mapping or the whole
\* post-reload mapping (for get_service: that mapping's answer for the name).
C2_ReaderSeesWholeSnapshot ==
    (last.op \in {"list_services", "get_service"} /\ last.during) =>
        last.value \in {last.old, last.new}

\* C2 witness: list_services() ran with a reload in flight and returned a
\* mapping of two services.
C2_Witness ==
    /\ last.op = "list_services"
    /\ last.during
    /\ DOMAIN last.value = Names

C6_DuplicateAddRejected ==
    (last.op = "add_service" /\ last.name \in DOMAIN last.pre) =>
        (~last.ret /\ services = last.pre)

\* C7: add_service(name, definition) with a url and a name not yet in the
\* registry returns True, get_service(name) then returns that definition,
\* and every other entry is unchanged.
C7_AddThenGet ==
    (last.op = "add_service" /\ "url" \in DOMAIN last.config
        /\ last.name \notin DOMAIN last.pre) =>
        /\ last.ret
        /\ get_service(last.name) = last.config
        /\ DOMAIN services = DOMAIN last.pre \cup {last.name}
        /\ \A n \in DOMAIN last.pre : services[n] = last.pre[n]

\* C7 witness: a valid definition was added under a new name to a registry
\* that already held another service.
C7_Witness ==
    /\ last.op = "add_service"
    /\ "url" \in DOMAIN last.config
    /\ last.name \notin DOMAIN last.pre
    /\ last.pre /= EmptyDict
    /\ last.ret

\* C8: remove_service(name) on an absent name returns False and leaves the
\* registry unchanged; on a present name it returns True, get_service(name)
\* is then None, and every other entry is unchanged.
C8_Remove ==
    (last.op = "remove_service") =>
        IF last.name \in DOMAIN last.pre
        THEN /\ last.ret
             /\ get_service(last.name) = None
             /\ DOMAIN services = DOMAIN last.pre \ {last.name}
             /\ \A n \in DOMAIN services : services[n] = last.pre[n]
        ELSE /\ ~last.ret
             /\ services = last.pre

\* C8 witness: a present name was removed from a registry of two services.
C8_Witness ==
    /\ last.op = "remove_service"
    /\ DOMAIN last.pre = Names
    /\ last.ret
    /\ Cardinality(DOMAIN services) = 1

\* C9: add_service with a config that has no "url" returns False and leaves
\* the registry unchanged.
C9_MissingUrlRejected ==
    (last.op = "add_service" /\ "url" \notin DOMAIN last.config) =>
        (~last.ret /\ services = last.pre)

\* C9 witness: a config without "url" was refused by a non-empty registry.
C9_Witness ==
    /\ last.op = "add_service"
    /\ "url" \notin DOMAIN last.config
    /\ ~last.ret
    /\ last.pre /= EmptyDict

\* C4: with limit L, of the requests of one client identity that arrive in
\* one one-minute window exactly the first L are admitted (200) and every
\* later one, the (L+1)th first, is rejected with 429.
C4_FirstLAdmitted ==
    (last.op = "rate_check") =>
        /\ last.allowed <=> last.ordinal <= Limit
        /\ last.status = IF last.ordinal <= Limit THEN 200 ELSE 429

\* C4 witness: the (L+1)th request of a client in one window was rejected.
C4_Witness ==
    /\ last.op = "rate_check"
    /\ last.ordinal = Limit + 1
    /\ ~last.allowed
    /\ last.status = 429

\* C5: however the requests of one client identity overlap, no more than L
\* of those arriving in one window are admitted.
C5_AtMostLAdmitted ==
    \A c \in DOMAIN seen : seen[c].admitted <= Limit

\* C5 witness: a request was rejected as over the limit while another
\* request of the same client was still being handled.
C5_Witness ==
    /\ last.op = "rate_check"
    /\ last.overlapping
    /\ ~last.allowed
    /\ seen[last.client].admitted = Limit

\* C10 (as claimed): a probe whose result was persisted reports healthy
\* exactly when the backend answered with a status in [200,299); any other
\* status, a connection failure or a timeout reports unhealthy.
C10_SuccessRangeIsHealthy ==
    (last.op = "health_check" /\ last.probed /\ ~last.persist_raised) =>
        /\ last.ret <=> (last.answer.kind = "status" /\ last.answer.code >= 200
                            /\ last.answer.code < 299)
        /\ last.recorded = IF last.ret THEN "healthy" ELSE "unhealthy"

\* C11 (as claimed): a probe answered with HTTP 200 reports healthy whether
\* or not persisting the result succeeded, for store-loaded services and for
\* services added through add_service without a store id.
C11_StatusIndependentOfPersistence ==
    (last.op = "health_check" /\ last.probed
        /\ last.answer = [kind |-> "status", code |-> 200]) =>
        last.ret

\* C12: health_check(name) returns a boolean and raises nothing, whatever
\* the probe request comes back with (any status, connection error, timeout)
\* and whether the persistence calls succeed or raise, the second one included.
C12_HealthCheckNeverRaises ==
    (last.op = "health_check") =>
        (~last.raised /\ last.ret \in BOOLEAN)

\* C12 witness: the probe timed out and recording unhealthy raised as well;
\* the call still returned False.
C12_Witness ==
    /\ last.op = "health_check"
    /\ last.probed
    /\ last.answer.kind = "timeout"
    /\ last.recorded = "nothing"
    /\ "id" \in DOMAIN services[last.name]
    /\ ~last.raised
    /\ last.ret = FALSE

\* C13 (as claimed): after every probe of a registered service, whatever the
\* backend answered, the service's store row carries the time of the probe
\* as last_health_check and the status the probe returned.  Stated for the
\* probes during which the store itself raised nothing.
C13_EveryProbeRecorded ==
    (last.op = "health_check" /\ last.probed /\ ~last.store_fault) =>
        /\ last.recorded = (IF last.ret THEN "healthy" ELSE "unhealthy")
        /\ \E i \in RowIds(db) :
              /\ db[i].name = last.name
              /\ db[i].last_health_check = now
              /\ db[i].health_status = last.recorded

\* C14 (as claimed): in a health-check-all run no probe is held back by
\* another one: while the run waits for the answer of one service's probe
\* (which may hang until its timeout) no other named service is still waiting
\* for its probe to be issued; and when the run ends every service named at
\* its start has a result.
C14_ProbesIndependent ==
    /\ (hca.pc = "awaiting") => Len(hca.todo) = 1
    /\ (last.op = "health_all") =>
           DOMAIN last.results = {last.names[i] : i \in 1..Len(last.names)}

\* C15: for a registered service and any inbound request, the backend
\* request goes to definition.url + path with the inbound method, body and
\* query parameters, and carries exactly the inbound headers that are not a
\* spelling of Host, each with its value.
C15_ForwardedRequestShape ==
    LET IsHostHeader(k) ==
            /\ Len(k) = 4
            /\ k[1] \in {"h", "H"}
            /\ k[2] \in {"o", "O"}
            /\ k[3] \in {"s", "S"}
            /\ k[4] \in {"t", "T"}
    IN
    (last.op = "forward_request" /\ last.outcome = "request") =>
        /\ last.issued.url = <<last.definition.url, last.inbound.path>>
        /\ last.issued.method = last.inbound.method
        /\ last.issued.content = last.inbound.body
        /\ last.issued.params = last.inbound.params
        /\ DOMAIN last.issued.headers =
              {k \in DOMAIN last.inbound.headers : ~IsHostHeader(k)}
        /\ \A k \in DOMAIN last.issued.headers :
              last.issued.headers[k] = last.inbound.headers[k]

\* C15 witness: a POST with a body, a query, an upper-case HOST header and
\* two other headers was forwarded without the HOST header.
C15_Witness ==
    /\ last.op = "forward_request"
    /\ last.outcome = "request"
    /\ last.inbound.method = "POST"
    /\ last.inbound.body /= None
    /\ last.inbound.params /= None
    /\ DOMAIN last.inbound.headers =
          {<<"H", "O", "S", "T">>, <<"h", "o", "s", "t", "s">>, <<"X", "-", "I", "d">>}
    /\ DOMAIN last.issued.headers = {<<"h", "o", "s", "t", "s">>, <<"X", "-", "I", "d">>}

\* C16: a call of forward_request has exactly one backend request in flight
\* and ends after that one request: a response is returned as it came, a
\* connection error or timeout is re-raised to the route (answered with a
\* 5xx), and no second request is issued.
C16_NoRetry ==
    /\ (fwd.pc = "awaiting") => fwd.sent = 1
    /\ last.op /= "forward_retry"
    /\ (last.op = "forward_return") =>
          /\ last.requests = 1
          /\ IF last.backend.kind = "response"
             THEN last.outcome = "response" /\ last.status = last.backend.code
             ELSE last.outcome = "raised" /\ last.status >= 500 /\ last.status <= 599

\* C16 witness: the backend timed out and the call ended with the failure
\* raised after one request.
C16_Witness ==
    /\ last.op = "forward_return"
    /\ last.backend.kind = "timeout"
    /\ last.outcome = "raised"
    /\ last.requests = 1
    /\ fwd.pc = "idle"

\* C17: a reload, whether its load succeeded or the store raised, ends with
\* no exception leaving reload() or the background task; a failure is logged
\* as an error, the task is over and the event loop is free again.
C17_ReloadNeverRaises ==
    (last.op = "reload") =>
        /\ ~last.reload_raised
        /\ ~last.task_raised
        /\ (~last.ok => last.logged = "error")
        /\ reload = IdleReload
        /\ running = NoTask

\* C17 witness: a reload of a loaded registry failed in the store and
\* returned normally.
C17_Witness ==
    /\ last.op = "reload"
    /\ ~last.ok
    /\ last.pre /= EmptyDict
    /\ last.logged = "error"
    /\ ~last.reload_raised
    /\ running = NoTask

\* C18: the reload trigger answers 200 'processing' with the reload task
\* only added, the registry being what it was before the request and the
\* task not yet started; and every reload task that was added is eventually
\* started and finished.
C18_ReloadTriggerNonBlocking ==
    /\ [](last.op = "reload_trigger" =>
            /\ last.status = 200
            /\ last.response = "processing"
            /\ pending > 0
            /\ reload = IdleReload
            /\ services = last.pre)
    /\ \A k \in 1..MaxSubmitted :
          (submitted >= k) ~> (submitted - pending >= k /\ reload = IdleReload)

\* C18 witness: the trigger has answered while its task is still waiting.
C18_Witness ==
    /\ last.op = "reload_trigger"
    /\ last.response = "processing"
    /\ pending = 1
    /\ submitted >= 2
    /\ services /= EmptyDict

\* C19 (as claimed): every GET /health, whatever requests came before it,
\* is answered with 200 and the body {"status": "healthy", "service": name}.
C19_HealthAlways200 ==
    /\ (last.op = "rate_check" /\ last.path = HealthPath) => last.status = 200
    /\ (last.op = "response" /\ last.path = HealthPath) =>
          /\ last.status = 200
          /\ last.body = [status |-> "healthy", service |-> GatewayName]

\* C20: a guarded admin request ends in its handler body only when its
\* Authorization header starts with "Bearer " and the auth server answered
\* 200; a missing or non-Bearer header is answered 401 without asking the
\* auth server, an auth-server 401 or 403 is relayed; and every step that
\* writes the store or schedules a reload or health-check task is the body
\* of a request the auth server answered 200 for, so a refused request
\* changes nothing.
C20_HandlerOnlyAfterAuth ==
    [][LET IsBearer(h) ==
               /\ h.present
               /\ Len(h.value) >= 7
               /\ SubSeq(h.value, 1, 7) = <<"B", "e", "a", "r", "e", "r", " ">>
           Ok200 == [kind |-> "status", code |-> 200]
           Relayed == {[kind |-> "status", code |-> 401], [kind |-> "status", code |-> 403]}
       IN /\ (auth'.pc = "done") =>
                /\ auth'.ran <=> (IsBearer(auth'.authorization) /\ auth'.asked
                                    /\ auth'.answer = Ok200)
                /\ ~IsBearer(auth'.authorization) =>
                       (~auth'.asked /\ auth'.status = 401)
                /\ (auth'.asked /\ auth'.answer \in Relayed) =>
                       auth'.status = auth'.answer.code
          /\ (auth'.pc = "verifying") => IsBearer(auth'.authorization)
          /\ (<<db, nextId, services, pending, submitted, hca>>'
                 /= <<db, nextId, services, pending, submitted, hca>>) =>
                /\ auth.pc = "verifying"
                /\ auth'.pc = "done"
                /\ auth'.ran
                /\ auth'.answer = Ok200
      ]_vars

\* C20 witness: a delete of an existing row, sent with a Bearer token the
\* auth server answered 403 for, was refused with 403 and the row is there.
C20_Witness ==
    /\ auth.pc = "done"
    /\ auth.call = [handler |-> "delete_existing_service", id |-> 1]
    /\ auth.asked
    /\ auth.answer = [kind |-> "status", code |-> 403]
    /\ ~auth.ran
    /\ auth.status = 403
    /\ last.op = "admin_rejected"
    /\ 1 \in RowIds(db)
    /\ submitted = 1

-----------------------------------------------------------------------------
(* C21: service names are unique. After every step of admin create, update *)
(* and delete requests, reloads and direct add_service / remove_service    *)
(* calls, no two store records carry the same name (the registry is a      *)
(* mapping keyed by name, so it cannot hold a name twice); and an admin    *)
(* create whose name is already in the store is answered 400 and changes   *)
(* neither the store, the id counter, the registry nor the reload queue,   *)
(* while a create with a fresh name is answered 201.                       *)
C21_NamesUnique ==
    [][ /\ \A i, j \in RowIds(db') : i /= j => db'[i].name /= db'[j].name
        /\ \A n \in DOMAIN services' :
             Cardinality({i \in RowIds(db') : db'[i].name = n}) <= 1
        /\ (last' /= last /\ last'.op = "create") =>
             IF \E i \in RowIds(db) : db[i].name = last'.name
             THEN /\ last'.status = 400
                  /\ UNCHANGED <<db, nextId, services, pending, submitted, reload>>
             ELSE last'.status = 201 ]_vars

\* both names are stored and a create of one of them has just been refused
C21_Witness ==
    /\ last.op = "create"
    /\ last.status = 400
    /\ Cardinality(RowIds(db)) = 2
    /\ \E n \in DOMAIN services : services[n] /= None

-----------------------------------------------------------------------------
(* C22: a service's name is immutable. No step - admin update (whatever    *)
(* the request body carries), health update, create or delete of another   *)
(* record, reload - changes the name of a store record that exists before  *)
(* and after the step, and every registry entry loaded from a record that  *)
(* is still stored is filed under that record's name.                      *)
C22_NameImmutable ==
    [][ /\ \A i \in RowIds(db) \cap RowIds(db') : db'[i].name = db[i].name
        /\ \A n \in DOMAIN services' :
             ("id" \in DOMAIN services'[n] /\ services'[n].id \in RowIds(db'))
                => db'[services'[n].id].name = n ]_vars

\* a stored record has been updated and probed, and is in the registry
C22_Witness ==
    /\ last.op = "update"
    /\ last.status = 200
    /\ \E n \in DOMAIN services :
         /\ services[n].id = last.id
         /\ db[last.id] /= NoRow
         /\ db[last.id].health_status /= "unknown"
         /\ db[last.id].url /= services[n].url

-----------------------------------------------------------------------------
(* C23: list_services() returns a point-in-time copy. While a caller keeps *)
(* the dict it got, a step of add_service, remove_service or a reload      *)
(* leaves the items of that dict as they were, and a step in which the     *)
(* caller stores or deletes a key of that dict leaves the registry as it   *)
(* was; the dict starts out equal to the registry at the time of the call. *)
C23_ListIsCopy ==
    [][ LET callerStep == last' /= last /\ last'.op \in {"kept_setitem", "kept_delitem"}
            listStep   == last' /= last /\ last'.op = "list_services_kept"
        IN /\ listStep => dict_items(held', services') = services
           /\ (held /= NoHeld /\ ~listStep) =>
                /\ held' /= NoHeld
                /\ IF callerStep
                   THEN services' = services
                   ELSE dict_items(held', services') = dict_items(held, services) ]_vars

\* the kept dict and the registry have gone different ways: the registry was
\* reloaded and added to after the call, the caller changed its own dict
C23_Witness ==
    /\ held /= NoHeld
    /\ last.op = "add_service"
    /\ \E n \in DOMAIN services : n \notin DOMAIN dict_items(held, services)
    /\ \E n \in DOMAIN dict_items(held, services) :
         n \notin DOMAIN services \/ services[n] /= dict_items(held, services)[n]
    /\ \E n \in DOMAIN services : "id" \in DOMAIN services[n]

-----------------------------------------------------------------------------
(* C24: rate limiter window rollover. When the check of a request finds    *)
(* for its client a stored window different from the current minute, the   *)
(* client's state becomes (current window, count 1) and the request is     *)
(* admitted, whatever count the stored window had reached.                 *)
C24_WindowRollover ==
    [][ \A c \in Clients :
          (/\ c \in DOMAIN rl
           /\ c \in DOMAIN rl'
           /\ rl'[c] /= rl[c]
           /\ rl[c].window /= now \div WindowSeconds)
          => /\ rl'[c] = [window |-> now \div WindowSeconds, count |-> 1]
             /\ last'.op = "rate_check"
             /\ last'.client = c
             /\ last'.allowed
             /\ last'.status = 200 ]_vars

\* a client whose previous window had counted rejected requests too has
\* just been admitted in the next window
C24_Witness ==
    /\ last.op = "rate_check"
    /\ last.stored /= NoWindow
    /\ last.stored.window /= last.window
    /\ last.stored.count > Limit
    /\ last.allowed
    /\ rl[last.client] = [window |-> last.window, count |-> 1]

-----------------------------------------------------------------------------
(* C25 (as claimed): once every reload scheduled by the admin creates,     *)
(* updates and deletes has completed and nothing has happened since,       *)
(* get_service returns for every active store record the definition built  *)
(* from it, and absent for every name with no active record.               *)
C25_MutationsReflected ==
    (last.op = "reload" /\ pending = 0 /\ reload = IdleReload) =>
        /\ \A i \in RowIds(db) :
             db[i].is_active => get_service(db[i].name) = LoadedEntry(i, db[i])
        /\ \A n \in Names :
             (~\E i \in RowIds(db) : db[i].name = n /\ db[i].is_active)
                => get_service(n) = None

-----------------------------------------------------------------------------
(* C26: health_check(name) for a name that is not in the registry returns  *)
(* False, issues no probe and writes no health status. For a single call:  *)
(* the call answers at once with False and nothing but the answer changes, *)
(* and a probe is only ever issued for a registered name. In a             *)
(* health-check-all run: when the turn of a name comes that a reload has   *)
(* removed since the run listed the names, the run records False for it    *)
(* and goes on to the next name, with no probe awaited and no store write. *)
C26_UnregisteredNotProbed ==
    [][ /\ (last' /= last /\ last'.op = "health_check" /\ ~last'.probed) =>
             /\ last'.name \notin DOMAIN services
             /\ last'.ret = FALSE
             /\ UNCHANGED <<db, hc, services>>
        /\ (last' /= last /\ last'.op = "health_probe") =>
             last'.name \in DOMAIN services
        /\ (last' /= last /\ last'.op = "health_all_probe"
                /\ last'.name \notin DOMAIN services) =>
             /\ hca'.pc = "loop"
             /\ hca'.todo = Tail(hca.todo)
             /\ hca'.results = DictSet(hca.results, last'.name, "unhealthy")
             /\ UNCHANGED <<db, hc, services>>
        /\ (last' /= last /\ last'.op = "health_all_probe"
                /\ last'.name \in DOMAIN services) =>
             hca'.pc = "awaiting" ]_vars

\* a health-check-all run has reached a name that a reload took out of the
\* registry after the run had listed it and probed another name
C26_Witness ==
    /\ last.op = "health_all_probe"
    /\ hca.pc = "loop"
    /\ last.name \in {hca.names[k] : k \in 1..Len(hca.names)}
    /\ last.name \notin DOMAIN services
    /\ last.name \in DOMAIN hca.results
    /\ hca.results[last.name] = "unhealthy"
    /\ Len(hca.names) = 2
    /\ submitted > 0
    /\ pending = 0
    /\ reload = IdleReload
    /\ \E i \in RowIds(db) : db[i].name /= last.name /\ db[i].health_status /= "unknown"
    /\ \E i \in RowIds(db) : db[i].name = last.name /\ db[i].health_status = "unknown"

-----------------------------------------------------------------------------
(* C27 (as claimed): after a successful reload, however many records the   *)
(* store holds, the registry's names are exactly the names of the store's  *)
(* active records - entries added through add_service alone are gone - and *)
(* each entry carries its record's id, url, health-check path and timeout. *)
C27_ReloadPostcondition ==
    (last.op = "reload" /\ last.ok) =>
        /\ DOMAIN services = {db[i].name : i \in {j \in RowIds(db) : db[j].is_active}}
        /\ \A i \in RowIds(db) :
             db[i].is_active =>
                /\ db[i].name \in DOMAIN services
                /\ services[db[i].name] = LoadedEntry(i, db[i])

-----------------------------------------------------------------------------
(* C28: in every reachable state of the store each record's health_status  *)
(* is unknown, healthy or unhealthy, so the counts of get_service_stats     *)
(* satisfy healthy + unhealthy + unknown = total and active <= total.       *)
C28_HealthStatusDomain ==
    /\ \A i \in RowIds(db) : db[i].health_status \in {"unknown", "healthy", "unhealthy"}
    /\ LET st == get_service_stats(db)
       IN /\ st.healthy_services + st.unhealthy_services + st.unknown_services
                = st.total_services
          /\ st.active_services <= st.total_services

\* the store holds a healthy and an unhealthy record, one of them deactivated
C28_Witness ==
    LET st == get_service_stats(db)
    IN /\ st.total_services = 2
       /\ st.healthy_services = 1
       /\ st.unhealthy_services = 1
       /\ st.active_services = 1
       /\ last.op = "health_check"
       /\ last.probed

-----------------------------------------------------------------------------
(* C29: health status is monotone out of unknown. A record enters the      *)
(* store with health_status unknown and no last_health_check; a status     *)
(* other than unknown is always recorded together with a last_health_check;*)
(* and no step - probe, admin update whatever its body carries, reload -   *)
(* takes a record that stays in the store back to unknown or clears its    *)
(* last_health_check.                                                      *)
C29_HealthMonotone ==
    [][ /\ \A i \in RowIds(db') \ RowIds(db) :
             /\ db'[i].health_status = "unknown"
             /\ db'[i].last_health_check = NoTimestamp
        /\ \A i \in RowIds(db') :
             db'[i].health_status /= "unknown" => db'[i].last_health_check /= NoTimestamp
        /\ \A i \in RowIds(db) \cap RowIds(db') :
             /\ db[i].health_status /= "unknown" => db'[i].health_status /= "unknown"
             /\ db[i].last_health_check /= NoTimestamp
                   => db'[i].last_health_check /= NoTimestamp ]_vars

\* a record that was probed and deactivated by an admin update keeps its
\* recorded status through the reload that drops it from the registry
C29_Witness ==
    /\ last.op = "reload"
    /\ last.ok
    /\ \E i \in RowIds(db) :
         /\ db[i].health_status = "healthy"
         /\ db[i].last_health_check /= NoTimestamp
         /\ ~db[i].is_active
         /\ db[i].name \notin DOMAIN services
         /\ db[i].name \in DOMAIN last.pre

-----------------------------------------------------------------------------
(* C30: an admin create, update or delete that succeeds (201, 200, 204)    *)
(* writes the store and adds exactly one reload task, which has not        *)
(* started when the handler returns and so reads the store after the       *)
(* write; one that fails (400 duplicate name, 404 unknown id) leaves the   *)
(* store and the task queue as they were; and the store is never written   *)
(* without a reload being added.                                           *)
C30_OneReloadPerMutation ==
    [][ LET admin   == last'.op \in {"create", "update", "delete"}
            acted   == last' /= last \/ submitted' /= submitted
            success == admin /\ acted /\ last'.status \in {200, 201, 204}
            failure == admin /\ acted /\ last'.status \in {400, 404}
        IN /\ (admin /\ acted) => (success \/ failure)
           /\ success =>
                /\ submitted' = submitted + 1
                /\ pending' = pending + 1
                /\ UNCHANGED <<reload, services>>
                /\ last'.op = "create" =>
                      /\ ~\E i \in RowIds(db) : db[i].name = last'.name
                      /\ \E i \in RowIds(db') : db'[i].name = last'.name
                /\ last'.op = "update" => last'.id \in RowIds(db) \cap RowIds(db')
                /\ last'.op = "delete" => last'.id \in RowIds(db) \ RowIds(db')
           /\ failure => UNCHANGED <<db, nextId, pending, submitted, reload, services>>
           /\ db' /= db => success ]_vars

\* an update has succeeded after a create whose reload has already run: its
\* own reload is the one task waiting
C30_Witness ==
    /\ last.op = "update"
    /\ last.status = 200
    /\ submitted = 2
    /\ pending = 1
    /\ reload = IdleReload
    /\ get_service_by_id(db, last.id) /= None
    /\ services /= EmptyDict

====
